---- MODULE Spec2Model ----
(***************************************************************************)
(* State machine of the VOX page (src/components/VoxPage.tsx): the current *)
(* creation (VoxState), the undo/redo stacks, the history ledger it is     *)
(* given by its parent, the asynchronous generation operations with their  *)
(* per-operation busy flags, and the completion callbacks (image load,     *)
(* video loaded) that run later with the values their closure captured.    *)
(*                                                                         *)
(* A handler invocation is one atomic step that reads the state of the     *)
(* render it was created in (the current state) and applies all its        *)
(* setState calls.  The continuation of an async handler after its await   *)
(* is a later step: it reads the closure captured when the handler started *)
(* (the record kept in inflight) and writes the current state.             *)
(***************************************************************************)
EXTENDS Integers, Sequences, FiniteSets, TLC

(* ------------------------------ constants ------------------------------ *)

MAX_HISTORY_ITEMS == 10
MAX_UNDO_STACK_SIZE == 20
MAX_UPLOADS == 6

(* ------------------------- bounds of the model ------------------------- *)

\* checkpoints a run of the session scenario may take
MaxCheckpoints == 2
\* checkpoints a run of the staging scenario may take
MaxStagingCheckpoints == 2
\* checkpoints a run of the ledger scenario may take
MaxLedgerCheckpoints == 1
\* checkpoints a run of the tools scenario may take
MaxToolsCheckpoints == 2
\* checkpoints a run of the autosave scenario may take
MaxAutosaveCheckpoints == 2
\* checkpoints a run of the uploads scenario may take
MaxUploadsCheckpoints == 1
\* operations a run of the slots scenario may begin, and records it may create
MaxSlotsCommits == 4
\* checkpoints a run of the stack scenario may push (beyond the stack limit)
MaxExtraPushes == 2
\* history records a run may create
MaxNewRecords == 2
\* image-load callbacks that may be pending at once
MaxPendingLoads == 1
\* undo steps a run of the stack scenario may take
MaxUndos == 2
\* files one file selection may hold
MaxFiles == 2
\* file selections whose reads may be pending at once
MaxPendingReads == 1
\* staged images the staging scenario lets the user collect
MaxStaged == 2
\* files one file selection of the uploads scenario may hold
MaxUploadFiles == 4
\* file selections of the uploads scenario whose reads may be pending at once
MaxUploadReads == 2
\* suggestions a run may append to the prompt and the negative prompt
MaxAnalyses == 1
\* batches a run of the COS page may start
MaxBatches == 2
\* session total of the token meter a run of the meter scenario may reach
MaxSessionTokens == 400

(* ------------------------------- values -------------------------------- *)

NULL == "null"
\* media the generation service returns; an image is named by its data URL,
\* whose mime type and natural dimensions are functions of it
ServiceImages == {"i1"}
ServiceVideos == {"v1"}
ServiceSeeds == {7}
UploadedFile == "u"
VideoThumbnail == "thumb"
UserPrompt == "p"
CreativePrompt == "q"
VisualPrompt == "vx"
WindowRatio == "16:9"

Last(s) == s[Len(s)]
Front(s) == SubSeq(s, 1, Len(s) - 1)
Range(s) == {s[i] : i \in 1..Len(s)}

\* Array.prototype.slice(k) for k <= 0: the last -k elements, and the whole
\* array when k = 0
SliceFrom(s, k) ==
  IF k = 0 \/ Len(s) <= -k THEN s ELSE SubSeq(s, Len(s) + k + 1, Len(s))

\* String(n) and parseInt(s, 10) on the seeds of the model
SeedString(n) == IF n = 7 THEN "7" ELSE IF n = 9 THEN "9" ELSE ""
ParseSeed(s) == IF s = "7" THEN 7 ELSE IF s = "9" THEN 9 ELSE 0

\* new Set(array): first occurrences, in order
RECURSIVE NewSet(_)
NewSet(arr) ==
  IF arr = <<>> THEN <<>>
  ELSE LET rest == NewSet(Front(arr))
       IN IF Last(arr) \in Range(rest) THEN rest ELSE Append(rest, Last(arr))
\* Array.from(set): its elements in insertion order
ArrayFrom(set) == set

(* ------------------------------ variables ------------------------------ *)

VARIABLES
  cs,              \* the VoxState fields of the component (lines 84-131)
  history,         \* the history prop (the ledger, owned by the parent)
  nextId,          \* source of fresh history ids (new Date().toISOString())
  undoStack, redoStack,
  flags,           \* the per-operation busy flags (lines 88, 135-146, 172)
  inflight,        \* service calls awaiting their result, with their closure
  loads,           \* Image() objects whose onload/onerror has not run yet
  videoEl,         \* the mounted <video> element (line 1270), with what
                   \* mounted it and, for a generated video, whether
                   \* generateVideo was given an edit-source image (398)
  error, conversationalResponse,
  isHistoryFullWarningVisible,
  is360View, isInpaintingMode, isHistoryOpen,
  selectedIndices,
  selectedHistoryImages,  \* the ticked records of the history panel
  reads,           \* file selections whose FileReader results are awaited
  vxogPrompt,      \* the generated visual prompt its modal shows (line 149)
  styleReferenceImage,
  storage,         \* sessionStorage: the item stored under VOX_AUTOSAVE_KEY
  autoSaveState,   \* the stored session the restore dialog offers (line 165)
  scenario,        \* which scenario the run belongs to (fixed at Init)
  tokenUsage,      \* the token meter of the page (line 161)
  cos,             \* the state of the COS page (src/components/COSPage.tsx)
  audit            \* what the run has done so far: checkpoints pushed, steps
                   \* undone, analyses made, the item found at mount, whether
                   \* the autosave timer has saved

vars == <<cs, history, nextId, undoStack, redoStack, flags, inflight, loads,
          videoEl, error, conversationalResponse, isHistoryFullWarningVisible,
          is360View, isInpaintingMode, isHistoryOpen, selectedIndices,
          selectedHistoryImages, reads, vxogPrompt, styleReferenceImage,
          storage, autoSaveState, scenario, tokenUsage, cos, audit>>

FlagNames == {"isLoading", "isUpscaling", "isGeneratingPrompt",
              "isGeneratingVariations", "isReframing", "isVideoLoading",
              "isChangingViewpoint", "isAnalyzingScene", "isAnalyzingStyle",
              "isSuggestingNegatives", "isInpaintingLoading", "isGeneratingVxog"}

GenerationOps == {"generateOrEdit", "generateVideo", "combine", "upscale",
                  "reframe", "variations", "changeViewpoint", "inpaint",
                  "surpriseMe"}

FlagOf(op) ==
  CASE op = "generateOrEdit" -> "isLoading"
    [] op = "combine" -> "isLoading"
    [] op = "generateVideo" -> "isVideoLoading"
    [] op = "upscale" -> "isUpscaling"
    [] op = "surpriseMe" -> "isGeneratingPrompt"
    [] op = "variations" -> "isGeneratingVariations"
    [] op = "reframe" -> "isReframing"
    [] op = "changeViewpoint" -> "isChangingViewpoint"
    [] op = "inpaint" -> "isInpaintingLoading"
    [] op = "vxog" -> "isGeneratingVxog"
    [] op = "analyzeScene" -> "isAnalyzingScene"
    [] op = "suggestNegatives" -> "isSuggestingNegatives"
    [] op = "applyStyle" -> "isAnalyzingStyle"

isBusy == \E f \in FlagNames : flags[f]

InitialState ==
  [prompt |-> "", bgUrl1 |-> NULL, bgUrl2 |-> NULL, isBg1Active |-> TRUE,
   currentImage |-> NULL, activeHistoryItemId |-> 0, uploadedImages |-> <<>>,
   negativePrompt |-> "", activeStyles |-> <<>>, detailIntensity |-> 3,
   selectedAspectRatio |-> "auto", imageDimensions |-> NULL,
   currentVideoUrl |-> NULL, seed |-> "", lastSeed |-> 0]

NoVideoEl ==
  [url |-> NULL, loaded |-> FALSE, cause |-> "none", fromImage |-> FALSE]

(* --------------------------- pure operations --------------------------- *)

\* captureState that leaves the seed of the last generation out
captureState_NoSeed(c) ==
  [c EXCEPT !.activeStyles = ArrayFrom(c.activeStyles), !.lastSeed = 0]
captureState(c) == [c EXCEPT !.activeStyles = ArrayFrom(c.activeStyles)]

restoreState(state) ==
  [prompt |-> state.prompt, bgUrl1 |-> state.bgUrl1, bgUrl2 |-> state.bgUrl2,
   isBg1Active |-> state.isBg1Active, currentImage |-> state.currentImage,
   activeHistoryItemId |-> state.activeHistoryItemId,
   uploadedImages |-> state.uploadedImages,
   negativePrompt |-> state.negativePrompt,
   activeStyles |-> NewSet(state.activeStyles),
   detailIntensity |-> state.detailIntensity,
   selectedAspectRatio |-> state.selectedAspectRatio,
   imageDimensions |-> state.imageDimensions,
   currentVideoUrl |-> state.currentVideoUrl,
   seed |-> state.seed, lastSeed |-> state.lastSeed]

\* saveStateForUndo that slices one element too few off the stack
saveStateForUndo_KeepsOneMore(stack, snapshot) ==
  Append(SliceFrom(stack, -MAX_UNDO_STACK_SIZE), snapshot)
\* setUndoStack(prev => [...prev.slice(-MAX_UNDO_STACK_SIZE + 1), captureState()])
saveStateForUndo(stack, snapshot) ==
  Append(SliceFrom(stack, -MAX_UNDO_STACK_SIZE + 1), snapshot)

\* handleUndo on the triple (state, undo stack, redo stack)
UndoStep(t) ==
  [cs |-> restoreState(Last(t.undo)),
   undo |-> Front(t.undo),
   redo |-> Append(t.redo, captureState(t.cs))]

\* a handleRedo that leaves the redone snapshot on the redo stack
RedoStep_KeepsRedo(t) ==
  [cs |-> restoreState(Last(t.redo)),
   undo |-> Append(t.undo, captureState(t.cs)),
   redo |-> t.redo]
\* handleRedo on the triple
RedoStep(t) ==
  [cs |-> restoreState(Last(t.redo)),
   undo |-> Append(t.undo, captureState(t.cs)),
   redo |-> Front(t.redo)]

\* preGenerationCheck that still passes at a full ledger
preGenerationCheck_OffByOne(hlen) == hlen <= MAX_HISTORY_ITEMS
preGenerationCheck(hlen) == hlen < MAX_HISTORY_ITEMS

getActiveAspectRatio(c) ==
  IF c.selectedAspectRatio # "auto" THEN c.selectedAspectRatio ELSE WindowRatio

ActiveSlotImage(c) == IF c.isBg1Active THEN c.bgUrl1 ELSE c.bgUrl2
\* currentImage?.base64 || (isBg1Active ? bgUrl1 : bgUrl2)
SourceImage(c) ==
  IF c.currentImage # NULL THEN c.currentImage ELSE ActiveSlotImage(c)

hasMedia == cs.bgUrl1 # NULL \/ cs.bgUrl2 # NULL \/ cs.currentVideoUrl # NULL
\* an operationMode that looks at the edit-source image first
operationMode_EditFirst ==
  IF cs.currentImage # NULL THEN "edit"
  ELSE IF Cardinality(selectedIndices) >= 2 THEN "combine" ELSE "generate"
operationMode ==
  IF Cardinality(selectedIndices) >= 2 THEN "combine"
  ELSE IF cs.currentImage # NULL THEN "edit" ELSE "generate"

\* handleMediaSuccess(mediaSrc, true)
MediaSuccessVideo(c, url) ==
  [c EXCEPT !.currentVideoUrl = url, !.bgUrl1 = NULL, !.bgUrl2 = NULL,
            !.currentImage = NULL, !.imageDimensions = NULL]
\* handleMediaSuccess(mediaSrc): the synchronous part
MediaSuccessImage(c) == [c EXCEPT !.currentVideoUrl = NULL]
\* handleMediaSuccess(mediaSrc): the Image() it creates, whose callbacks
\* close over the slots of the render the handler belongs to
ImageLoad(src, env) ==
  [src |-> src, bgUrl1 |-> env.bgUrl1, bgUrl2 |-> env.bgUrl2,
   isBg1Active |-> env.isBg1Active, stale |-> FALSE]
\* the Image() objects still pending when undo, redo, start-fresh or a history
\* selection completes: none of these handlers cancels them (292-293, 466-490,
\* 674-690), they are only marked as belonging to an earlier commit
Superseded(ls) == {[l EXCEPT !.stale = TRUE] : l \in ls}
\* img.onload
OnLoad(c, l) ==
  IF l.bgUrl1 = NULL /\ l.bgUrl2 = NULL
  THEN [c EXCEPT !.imageDimensions = l.src, !.bgUrl1 = l.src]
  ELSE IF l.isBg1Active
       THEN [c EXCEPT !.imageDimensions = l.src, !.bgUrl2 = l.src,
                      !.isBg1Active = ~l.isBg1Active]
       ELSE [c EXCEPT !.imageDimensions = l.src, !.bgUrl1 = l.src,
                      !.isBg1Active = ~l.isBg1Active]

\* the history record createAndStoreHistoryItem builds from its closure
NewHistoryItem(id, src, userPrompt, mode, videoSrc, seedUsed, env) ==
  [id |-> id, prompt |-> userPrompt, src |-> src, upscaledTo |-> "",
   generationMode |-> mode, videoSrc |-> videoSrc, seed |-> seedUsed,
   voxSettings |-> [negativePrompt |-> env.negativePrompt,
                    activeStyles |-> ArrayFrom(env.activeStyles),
                    detailIntensity |-> env.detailIntensity,
                    aspectRatio |-> env.selectedAspectRatio]]

\* a ledger whose append never fails
addToHistory_Unbounded(h, item) == Append(h, item)
\* the parent's ledger operations; append fails when the ledger is full
addToHistory(h, item) ==
  IF Len(h) >= MAX_HISTORY_ITEMS THEN h ELSE Append(h, item)
deleteHistoryItems(h, ids) == SelectSeq(h, LAMBDA it : it.id \notin ids)
clearHistory(h) == <<>>
updateHistoryItem(h, id, src, resolution) ==
  [i \in 1..Len(h) |->
     IF h[i].id = id THEN [h[i] EXCEPT !.src = src, !.upscaledTo = resolution]
     ELSE h[i]]

\* the <video> element after a render that shows url
VideoElFor(url, cause) ==
  IF url = NULL THEN NoVideoEl
  ELSE IF videoEl.url = url THEN videoEl
  ELSE [url |-> url, loaded |-> FALSE, cause |-> cause, fromImage |-> FALSE]

(* ------------------------------- autosave ------------------------------ *)

\* sessionStorage.getItem of a key that is not stored
NoItem == <<>>
\* useState<VoxState | null>(null)
NoSession == <<>>

\* the keys of a VoxState in the order captureState writes them
VoxStateKeys ==
  <<"prompt", "bgUrl1", "bgUrl2", "isBg1Active", "currentImage",
    "activeHistoryItemId", "uploadedImages", "negativePrompt", "activeStyles",
    "detailIntensity", "selectedAspectRatio", "imageDimensions",
    "currentVideoUrl", "seed", "lastSeed">>

\* JSON.stringify of a VoxState: its members, key by key
JSONStringify(state) ==
  [i \in 1..Len(VoxStateKeys) |-> <<VoxStateKeys[i], state[VoxStateKeys[i]]>>]
\* JSON.parse of such a text
JSONParse(text) ==
  [k \in Range(VoxStateKeys) |->
     text[CHOOSE i \in 1..Len(text) : text[i][1] = k][2]]

\* a liteState that keeps the staged uploads
LiteState_KeepsUploads(state) ==
  [state EXCEPT !.currentImage = NULL, !.bgUrl1 = NULL, !.bgUrl2 = NULL,
                !.currentVideoUrl = NULL]
\* liteState of saveCurrentSession
LiteState(state) ==
  [state EXCEPT !.uploadedImages = <<>>, !.currentImage = NULL,
                !.bgUrl1 = NULL, !.bgUrl2 = NULL, !.currentVideoUrl = NULL]
\* the item saveCurrentSession(state) stores
saveCurrentSession(state) == JSONStringify(LiteState(state))

\* hasContent of the autosave effect
hasContent(c) ==
  c.prompt # "" \/ c.bgUrl1 # NULL \/ c.currentImage # NULL
    \/ c.currentVideoUrl # NULL

\* an autosave effect that leaves a stored item to the next tick
AutosaveEffect_Deferred == UNCHANGED storage
\* the autosave effect after the render a step leads to: with no content the
\* stored item is removed, otherwise the interval is (re)started
AutosaveEffect == storage' = IF hasContent(cs') THEN storage ELSE NoItem

\* clearAutoSave() called from a handler
clearAutoSave == storage' = NoItem /\ autoSaveState' = NoSession

\* the effects of the first render, in the order they are declared, when
\* sessionStorage holds found: the autosave effect, then the load effect
MountEffects(found) ==
  LET kept == IF hasContent(InitialState) THEN found ELSE NoItem
  IN [storage |-> kept,
      autoSaveState |-> IF kept # NoItem THEN JSONParse(kept) ELSE NoSession]

(* ------------------------------ token meter ---------------------------- *)

\* setTokenUsage(prev => ({ last: cost, session: prev.session + cost }))
updateTokenUsage(prev, cost) ==
  [last |-> cost, session |-> prev.session + cost]

\* the cost the handler of operation o reports once its result is committed
TokenCost(o) ==
  CASE o.op = "generateOrEdit" ->
         IF o.env.currentImage # NULL THEN 350 ELSE 250
    [] o.op = "generateVideo" -> 1000
    [] o.op = "combine" -> 500
    [] o.op = "upscale" -> 150
    [] o.op = "surpriseMe" -> 50
    [] o.op = "variations" -> 300
    [] o.op = "reframe" -> 200
    [] o.op = "changeViewpoint" -> 200
    [] o.op = "inpaint" -> 300
    [] o.op = "analyzeScene" -> 100
    [] o.op = "suggestNegatives" -> 50
    [] o.op = "applyStyle" -> 100
    [] o.op = "vxog" -> 150

\* the meter is followed in the runs of the meter scenario, which end when
\* the session total would pass MaxSessionTokens; the runs of the other
\* scenarios do not read it
CanSpend(o) ==
  scenario = "meter" =>
    tokenUsage.session + TokenCost(o) <= MaxSessionTokens

\* updateTokenUsage(cost) at the end of the success path of operation o
Spend(o) ==
  /\ CanSpend(o)
  /\ tokenUsage' = IF scenario = "meter"
                   THEN updateTokenUsage(tokenUsage, TokenCost(o))
                   ELSE tokenUsage

(* ------------------- service errors (parseGeminiError) ----------------- *)

\* an error message is the sequence of the phrases it is made of
RefusalMarker == "Model refusal: "

\* message.includes(phrase) for one of the phrases, message.startsWith(phrase)
Includes(message, phrases) == \E i \in 1..Len(message) : message[i] \in phrases
StartsWith(message, phrase) == Len(message) > 0 /\ message[1] = phrase

\* the messages the service functions hand to parseGeminiError: errors of
\* the API, and the refusals they throw themselves with the text of the model
ServiceMessages ==
  {<<"quota">>, <<"failed to fetch">>, <<"internal">>,
   <<"api key not valid">>,
   <<RefusalMarker, "I cannot help with that">>,
   <<RefusalMarker, "I cannot draw a ", "network error", " screen">>,
   <<RefusalMarker, "that request is ", "blocked">>}

parseGeminiError(message) ==
  IF Includes(message, {"xhr error", "network error", "failed to fetch"})
  THEN <<"A network connection error occurred.">>
  ELSE IF StartsWith(message, RefusalMarker) THEN message
  ELSE IF Includes(message, {"safety policies", "blocked"})
  THEN <<"Your request was blocked due to safety policies.">>
  ELSE IF Includes(message, {"api key not valid"})
  THEN <<"The provided API key is invalid.">>
  ELSE IF Includes(message, {"quota"}) THEN <<"API quota exceeded.">>
  ELSE IF Includes(message, {"resource has been exhausted", "rate limit"})
  THEN <<"The server is busy or you have hit a rate limit.">>
  ELSE <<"An unexpected API error occurred: ">> \o message

(* ------------------- the COS page (COSPage.tsx) ------------------------ *)

\* for (let i = 1; i <= 20; i++)
BatchSize == 20
estimatedTokensPerImage == 300

\* the component after mount; loops holds the handleGenerate invocations that
\* await a service call, each with its loop counter and its newImages array,
\* and batches counts the invocations so far
COSInitialState ==
  [inputImage |-> NULL, selectedStyle |-> NULL, isGenerating |-> FALSE,
   generatedImages |-> <<>>, progress |-> 0, error |-> NULL,
   tokenUsage |-> 0, isCancelledRef |-> FALSE, loops |-> {}, batches |-> 0]

VoxVars ==
  <<cs, history, nextId, undoStack, redoStack, flags, inflight, loads,
    videoEl, error, conversationalResponse, isHistoryFullWarningVisible,
    is360View, isInpaintingMode, isHistoryOpen, selectedIndices,
    selectedHistoryImages, reads, vxogPrompt, styleReferenceImage,
    storage, autoSaveState, scenario, tokenUsage, audit>>

handleImageUpload ==
  /\ cos.inputImage = NULL
  /\ cos' = [cos EXCEPT !.inputImage = UploadedFile, !.generatedImages = <<>>,
                        !.selectedStyle = NULL, !.error = NULL,
                        !.tokenUsage = 0]
  /\ UNCHANGED VoxVars

\* a style button (disabled while isGenerating)
setSelectedStyle(style) ==
  /\ cos.inputImage # NULL /\ ~cos.isGenerating
  /\ cos.selectedStyle # style
  /\ cos' = [cos EXCEPT !.selectedStyle = style]
  /\ UNCHANGED VoxVars

\* the top of the loop body for counter i in the invocation that holds
\* newImages: leave the loop (and run finally) or await the next call
LoopFrom(c, batch, i, newImages) ==
  IF i > BatchSize \/ c.isCancelledRef
  THEN [c EXCEPT !.isGenerating = FALSE]
  ELSE [c EXCEPT !.progress = i,
                 !.loops = @ \cup {[batch |-> batch, i |-> i,
                                    newImages |-> newImages]}]

\* the Generate button (disabled while isGenerating), up to the first await
handleGenerate ==
  /\ cos.inputImage # NULL /\ cos.selectedStyle # NULL
  /\ ~cos.isGenerating
  /\ cos.batches < MaxBatches
  /\ cos' = LoopFrom([cos EXCEPT !.isGenerating = TRUE,
                                 !.generatedImages = <<>>, !.error = NULL,
                                 !.progress = 0, !.tokenUsage = 0,
                                 !.isCancelledRef = FALSE,
                                 !.batches = @ + 1],
                     cos.batches + 1, 1, <<>>)
  /\ UNCHANGED VoxVars

\* the awaited editImageFromPrompt call of invocation l returns an image: the
\* rest of the loop body, then the top of the next iteration
EditResolved(l) ==
  /\ l \in cos.loops
  /\ LET newImages == Append(l.newImages, <<l.batch, l.i>>)
     IN cos' = LoopFrom([cos EXCEPT !.loops = @ \ {l},
                                    !.generatedImages = newImages,
                                    !.tokenUsage = @ + estimatedTokensPerImage],
                        l.batch, l.i + 1, newImages)
  /\ UNCHANGED VoxVars

\* the awaited call rejects: catch and finally
EditRejected(l) ==
  /\ l \in cos.loops
  /\ cos' = [cos EXCEPT !.loops = @ \ {l},
                        !.error = IF cos.isCancelledRef THEN @
                                  ELSE "service error",
                        !.isGenerating = FALSE]
  /\ UNCHANGED VoxVars

\* the Cancel button (rendered while isGenerating)
handleCancel ==
  /\ cos.isGenerating
  /\ cos' = [cos EXCEPT !.isCancelledRef = TRUE, !.isGenerating = FALSE]
  /\ UNCHANGED VoxVars

(* -------------------------------- Init --------------------------------- *)

DefaultVoxSettings ==
  [negativePrompt |-> "", activeStyles |-> <<>>, detailIntensity |-> 3,
   aspectRatio |-> "auto"]

StyledVoxSettings ==
  [negativePrompt |-> "blurry", activeStyles |-> <<"Cinematic">>,
   detailIntensity |-> 5, aspectRatio |-> "1:1"]

\* a ledger of n records such as earlier generations leave behind: the first
\* a video, the others images, every second one made with a style preset
InitHistory(n) ==
  [i \in 1..n |->
     IF i = 1
     THEN [id |-> 1, prompt |-> UserPrompt, src |-> VideoThumbnail,
           upscaledTo |-> "", generationMode |-> "text-to-video",
           videoSrc |-> "v0", seed |-> 0, voxSettings |-> DefaultVoxSettings]
     ELSE [id |-> i, prompt |-> UserPrompt, src |-> "i0", upscaledTo |-> "",
           generationMode |-> "text-to-image", videoSrc |-> NULL, seed |-> 7,
           voxSettings |-> IF i % 2 = 0 THEN StyledVoxSettings
                           ELSE DefaultVoxSettings]]

InitRest ==
  /\ nextId = MAX_HISTORY_ITEMS + 1
  /\ redoStack = <<>>
  /\ flags = [f \in FlagNames |-> FALSE]
  /\ inflight = {} /\ loads = {} /\ reads = {}
  /\ videoEl = NoVideoEl
  /\ error = NULL /\ conversationalResponse = NULL
  /\ isHistoryFullWarningVisible = FALSE
  /\ is360View = FALSE /\ isInpaintingMode = FALSE /\ isHistoryOpen = FALSE
  /\ selectedIndices = {} /\ selectedHistoryImages = {}
  /\ vxogPrompt = NULL /\ styleReferenceImage = NULL
  /\ tokenUsage = [last |-> 0, session |-> 0]
  /\ cos = COSInitialState

\* the component mounts with found stored under the autosave key
Mounted(found) ==
  /\ storage = MountEffects(found).storage
  /\ autoSaveState = MountEffects(found).autoSaveState
  /\ audit = [pushes |-> 0, undos |-> 0, analyses |-> 0, log |-> <<>>,
              pure |-> TRUE, found |-> found, saved |-> FALSE]

InitCommon ==
  /\ cs = InitialState
  /\ undoStack = <<>>
  /\ InitRest
  /\ Mounted(NoItem)

Init ==
  /\ InitCommon
  /\ scenario = "session"
  /\ history = InitHistory(MAX_HISTORY_ITEMS - 1)

InitStaging ==
  /\ InitCommon
  /\ scenario = "staging"
  /\ history = InitHistory(MAX_HISTORY_ITEMS - 1)

\* the page opens on a full ledger
InitLedger ==
  /\ InitCommon
  /\ scenario = "ledger"
  /\ history = InitHistory(MAX_HISTORY_ITEMS)

\* room for two more records, so that an operation can start from an image
\* an earlier operation has stored
InitTools ==
  /\ InitCommon
  /\ scenario = "tools"
  /\ history = InitHistory(MAX_HISTORY_ITEMS - 2)

\* what an earlier visit of the page may have left under the autosave key
StoredItems ==
  {NoItem,
   saveCurrentSession([InitialState EXCEPT !.prompt = CreativePrompt,
                                           !.bgUrl1 = "i0",
                                           !.imageDimensions = "i0",
                                           !.activeHistoryItemId = 2,
                                           !.seed = "7", !.lastSeed = 7])}

InitAutosave ==
  /\ cs = InitialState
  /\ undoStack = <<>>
  /\ InitRest
  /\ \E found \in StoredItems : Mounted(found)
  /\ scenario = "autosave"
  /\ history = InitHistory(MAX_HISTORY_ITEMS - 2)

\* the sessions the autosave timer can have saved: a prompt or none, an
\* image, a video or neither, uploads staged or not, fine-tuning set or not
SavedSessions ==
  {x \in
     {[InitialState EXCEPT
         !.prompt = pr,
         !.bgUrl1 = IF media = "image" THEN "i1" ELSE NULL,
         !.currentImage = IF media = "image" THEN "i1" ELSE NULL,
         !.imageDimensions = IF media = "image" THEN "i1" ELSE NULL,
         !.activeHistoryItemId = IF media = "none" THEN 0 ELSE 2,
         !.currentVideoUrl = IF media = "video" THEN "v1" ELSE NULL,
         !.lastSeed = IF media = "image" THEN 7 ELSE 0,
         !.uploadedImages = IF staged THEN <<UploadedFile, UploadedFile>>
                            ELSE <<>>,
         !.negativePrompt = settings.negativePrompt,
         !.activeStyles = settings.activeStyles,
         !.detailIntensity = settings.detailIntensity,
         !.selectedAspectRatio = settings.aspectRatio] :
        pr \in {"", UserPrompt, CreativePrompt},
        media \in {"none", "image", "video"},
        staged \in BOOLEAN,
        settings \in {DefaultVoxSettings, StyledVoxSettings}} :
     hasContent(x)}

\* the restore dialog is open on a session the timer had saved; the
\* fine-tuning is the persisted one (lines 243-253)
InitRestore ==
  /\ \E settings \in {DefaultVoxSettings, StyledVoxSettings} :
       cs = [InitialState EXCEPT
               !.negativePrompt = settings.negativePrompt,
               !.activeStyles = settings.activeStyles,
               !.detailIntensity = settings.detailIntensity,
               !.selectedAspectRatio = settings.aspectRatio]
  /\ undoStack = <<>>
  /\ InitRest
  /\ \E x \in SavedSessions :
       LET item == saveCurrentSession(captureState(x))
       IN /\ storage = item
          /\ autoSaveState = JSONParse(item)
          /\ audit = [pushes |-> 0, undos |-> 0, analyses |-> 0,
                      log |-> <<>>, pure |-> TRUE, found |-> item,
                      saved |-> FALSE]
  /\ scenario = "restore"
  /\ history = InitHistory(MAX_HISTORY_ITEMS - 2)

InitUploads ==
  /\ InitCommon
  /\ scenario = "uploads"
  /\ history = InitHistory(MAX_HISTORY_ITEMS - 2)

\* a short ledger, with room for every record the run creates
InitSlots ==
  /\ InitCommon
  /\ scenario = "slots"
  /\ history = InitHistory(3)

\* room for two more records in the ledger, the token meter followed
InitMeter ==
  /\ InitCommon
  /\ scenario = "meter"
  /\ history = InitHistory(MAX_HISTORY_ITEMS - 2)

\* the COS page after mount
InitCOS ==
  /\ InitCommon
  /\ scenario = "cos"
  /\ history = InitHistory(MAX_HISTORY_ITEMS - 2)

InitStack ==
  /\ InitCommon
  /\ scenario = "stack"
  /\ history = SubSeq(InitHistory(3), 2, 3)

(* ------------------------- what the user can reach --------------------- *)

\* the history-full warning (z-50), the video-loading overlay (z-60), the
\* visual-prompt modal (z-50) and the restore dialog (z-60) cover the whole
\* page
ModalOpen ==
  \/ isHistoryFullWarningVisible \/ flags["isVideoLoading"]
  \/ vxogPrompt # NULL \/ autoSaveState # NoSession
\* the main panel is faded out while the inpainting tools are shown
PanelUsable == ~ModalOpen /\ ~isInpaintingMode

CanCheckpoint ==
  CASE scenario = "stack" ->
         audit.pushes < MAX_UNDO_STACK_SIZE + MaxExtraPushes
    [] scenario = "staging" -> audit.pushes < MaxStagingCheckpoints
    [] scenario = "ledger" -> audit.pushes < MaxLedgerCheckpoints
    [] scenario = "tools" -> audit.pushes < MaxToolsCheckpoints
    [] scenario = "slots" -> audit.pushes < MaxSlotsCommits
    [] scenario = "uploads" -> audit.pushes < MaxUploadsCheckpoints
    [] scenario = "autosave" -> audit.pushes < MaxAutosaveCheckpoints
    [] OTHER -> audit.pushes < MaxCheckpoints

CanCreateRecord ==
  nextId <= MAX_HISTORY_ITEMS
              + (IF scenario = "slots" THEN MaxSlotsCommits ELSE MaxNewRecords)

\* room for one more pending Image() (two Image() objects are two elements
\* of loads only if they differ)
CanLoad(l) == l \notin loads /\ Cardinality(loads) < MaxPendingLoads

(* ------------------------------ checkpoint ----------------------------- *)

\* a handler that forgets saveStateForUndo()
Checkpoint_Skipped(c) == UNCHANGED <<undoStack, redoStack, audit>>
\* saveStateForUndo() called from a handler whose closure holds state c
Checkpoint(c) ==
  /\ CanCheckpoint
  /\ undoStack' = saveStateForUndo(undoStack, captureState(c))
  /\ redoStack' = <<>>
  /\ audit' = [audit EXCEPT
                 !.pushes = @ + 1,
                 !.log = IF scenario = "stack" /\ audit.pure
                         THEN Append(@, captureState(c)) ELSE @]

\* an operation passes its preconditions: checkpoint (unless it takes none),
\* busy flag, banners cleared, service call issued
Begin(op, arg, checkpoint, newcs) ==
  /\ IF checkpoint THEN Checkpoint(cs)
     ELSE UNCHANGED <<undoStack, redoStack, audit>>
  /\ cs' = newcs
  /\ flags' = [flags EXCEPT ![FlagOf(op)] = TRUE]
  /\ error' = NULL /\ conversationalResponse' = NULL
  /\ inflight' = inflight \cup
       {[op |-> op, arg |-> arg, env |-> cs, hlen |-> Len(history),
         sel |-> selectedIndices]}
  /\ videoEl' = VideoElFor(newcs.currentVideoUrl, "operation")
  /\ UNCHANGED <<history, nextId, loads, reads, isHistoryFullWarningVisible,
                 is360View, isInpaintingMode, isHistoryOpen, selectedIndices,
                 scenario, tokenUsage, cos, autoSaveState, vxogPrompt, styleReferenceImage, selectedHistoryImages>>
  /\ AutosaveEffect

\* a precondition other than the capacity check fails: the handler returns
Abort ==
  /\ UNCHANGED <<cs, history, nextId, undoStack, redoStack, flags, inflight,
                 loads, reads, videoEl, error, conversationalResponse,
                 isHistoryFullWarningVisible, is360View, isInpaintingMode,
                 isHistoryOpen, selectedIndices, scenario, tokenUsage, cos, autoSaveState, vxogPrompt, styleReferenceImage, audit, selectedHistoryImages>>
  /\ AutosaveEffect

\* preGenerationCheck() fails: the warning is raised and the handler returns
Refuse ==
  /\ isHistoryFullWarningVisible' = TRUE
  /\ UNCHANGED <<cs, history, nextId, undoStack, redoStack, flags, inflight,
                 loads, reads, videoEl, error, conversationalResponse,
                 is360View, isInpaintingMode, isHistoryOpen, selectedIndices,
                 scenario, tokenUsage, cos, autoSaveState, vxogPrompt, styleReferenceImage, audit, selectedHistoryImages>>
  /\ AutosaveEffect

(* --------------------------- plain user input -------------------------- *)

handlePromptChange(newPrompt) ==
  /\ PanelUsable /\ ~isBusy
  /\ newPrompt # cs.prompt
  /\ cs' = [cs EXCEPT !.prompt = newPrompt]
  /\ UNCHANGED <<history, nextId, undoStack, redoStack, flags, inflight, loads,
                 reads, videoEl, error, conversationalResponse,
                 isHistoryFullWarningVisible, is360View, isInpaintingMode,
                 isHistoryOpen, selectedIndices, scenario, tokenUsage, cos, autoSaveState, vxogPrompt, styleReferenceImage, audit, selectedHistoryImages>>
  /\ AutosaveEffect

(* --------------------------- start of operations ----------------------- *)

handleGenerateOrEdit ==
  /\ PanelUsable /\ ~isBusy
  /\ operationMode # "combine"
  /\ IF cs.prompt = "" THEN Abort
     ELSE IF ~preGenerationCheck(Len(history))
     THEN Refuse
     ELSE /\ Begin("generateOrEdit", "", TRUE,
                   [cs EXCEPT !.currentVideoUrl = NULL])

handleGenerateVideo ==
  /\ PanelUsable /\ ~isBusy
  /\ cs.prompt # ""
  /\ IF ~preGenerationCheck(Len(history)) THEN Refuse
     ELSE /\ Begin("generateVideo", "", TRUE, cs)

\* handleCombineImages without its own preconditions
handleCombineImages_Unchecked ==
  /\ PanelUsable /\ ~isBusy
  /\ operationMode = "combine"
  /\ IF ~preGenerationCheck(Len(history))
     THEN Refuse
     ELSE /\ Begin("combine", "", TRUE, cs)
handleCombineImages ==
  /\ PanelUsable /\ ~isBusy
  /\ operationMode = "combine"
  /\ IF Cardinality(selectedIndices) < 2 \/ cs.prompt = ""
     THEN Abort
     ELSE IF ~preGenerationCheck(Len(history))
     THEN Refuse
     ELSE /\ Begin("combine", "", TRUE, cs)

\* upscaledTo of the active history record's image (currentImageInfo)
CurrentUpscaledTo ==
  LET m == {i \in 1..Len(history) : history[i].id = cs.activeHistoryItemId}
  IN IF m = {} THEN ""
     ELSE history[CHOOSE i \in m : \A j \in m : i <= j].upscaledTo

handleUpscale(resolution) ==
  /\ PanelUsable /\ ~isBusy
  /\ hasMedia /\ cs.currentVideoUrl = NULL
  /\ CurrentUpscaledTo \notin {"4x", resolution}
  /\ IF SourceImage(cs) = NULL \/ cs.activeHistoryItemId = 0
     THEN /\ error' = "No active image to upscale."
          /\ UNCHANGED <<cs, history, nextId, undoStack, redoStack, flags,
                         inflight, loads, reads, videoEl,
                         conversationalResponse, isHistoryFullWarningVisible,
                         is360View, isInpaintingMode, isHistoryOpen,
                         selectedIndices, scenario, tokenUsage, cos, autoSaveState, vxogPrompt, styleReferenceImage, audit, selectedHistoryImages>>
          /\ AutosaveEffect
     ELSE /\ Begin("upscale", resolution, TRUE, cs)

handleSurpriseMe ==
  /\ PanelUsable /\ ~isBusy
  /\ Begin("surpriseMe", "", FALSE, cs)

handleGenerateVariations ==
  /\ PanelUsable /\ ~isBusy
  /\ hasMedia
  /\ IF SourceImage(cs) = NULL THEN Abort
     ELSE IF ~preGenerationCheck(Len(history))
     THEN Refuse
     ELSE /\ Begin("variations", "", TRUE, cs)

handleReframe(newRatio) ==
  /\ PanelUsable /\ ~isBusy
  /\ hasMedia /\ cs.currentVideoUrl = NULL
  /\ IF SourceImage(cs) = NULL THEN Abort
     ELSE IF ~preGenerationCheck(Len(history)) THEN Refuse
     ELSE /\ Begin("reframe", newRatio, TRUE, cs)

\* the viewpoint buttons are disabled by isChangingViewpoint alone
handleChangeViewpoint(direction) ==
  /\ is360View /\ ~ModalOpen
  /\ ~flags["isChangingViewpoint"]
  /\ IF SourceImage(cs) = NULL THEN Abort
     ELSE IF ~preGenerationCheck(Len(history))
     THEN Refuse
     ELSE /\ Begin("changeViewpoint", direction, TRUE, cs)

\* the apply button is disabled by isInpaintingLoading alone; the prompt
\* of the inpainting tools is not empty when it is enabled
handleApplyInpainting ==
  /\ isInpaintingMode /\ ~ModalOpen
  /\ ~flags["isInpaintingLoading"]
  /\ IF SourceImage(cs) = NULL THEN Abort
     ELSE IF ~preGenerationCheck(Len(history))
     THEN Refuse
     ELSE /\ Begin("inpaint", "", TRUE, cs)

(* ------------------------- results of operations ----------------------- *)

\* a createAndStoreHistoryItem that stores nothing
createAndStoreHistoryItem_Drops(h, hlen, item) ==
  [history |-> h, stored |-> FALSE]
\* createAndStoreHistoryItem, run in the closure of an operation that began
\* when the ledger held hlen records: stored tells whether its own check
\* passed, after which it calls addToHistory and setActiveHistoryItemId
createAndStoreHistoryItem(h, hlen, item) ==
  IF hlen >= MAX_HISTORY_ITEMS
  THEN [history |-> h, stored |-> FALSE]
  ELSE [history |-> addToHistory(h, item), stored |-> TRUE]

\* `${prefix}${prompt || 'input image'}`
Titled(prefix, p) == prefix \o (IF p = "" THEN "input image" ELSE p)

\* the service function the primary action's operation o awaits
ServiceCall(o) ==
  IF o.op = "combine" THEN "combineImages"
  ELSE IF o.env.currentImage # NULL THEN "editImageFromPrompt"
  ELSE "generateImagesFromPrompt"

\* the prompt and mode of the record an image operation stores
RecordPrompt(o) ==
  CASE o.op = "generateOrEdit" -> o.env.prompt
    [] o.op = "combine" -> o.env.prompt
    [] o.op = "variations" -> Titled("Variations of: ", o.env.prompt)
    [] o.op = "reframe" -> Titled("Reframe of: ", o.env.prompt)
    [] o.op = "changeViewpoint" ->
         Titled("Change viewpoint to " \o o.arg \o ": ", o.env.prompt)
    [] o.op = "inpaint" -> "Inpaint: m"
RecordMode(o) ==
  IF o.op = "generateOrEdit" /\ o.env.currentImage = NULL
  THEN "text-to-image" ELSE "image-to-image"

\* the state an image operation leaves on success, after handleMediaSuccess
\* and createAndStoreHistoryItem (id is 0 when no record was stored)
CommitImage(c, o, img, seedUsed, id) ==
  LET c1 == MediaSuccessImage(c)
      c2 == IF id = 0 THEN c1 ELSE [c1 EXCEPT !.activeHistoryItemId = id]
  IN CASE o.op = "generateOrEdit" ->
            IF o.env.currentImage # NULL
            THEN [c2 EXCEPT !.lastSeed = seedUsed, !.currentImage = img,
                            !.prompt = ""]
            ELSE [c2 EXCEPT !.lastSeed = seedUsed, !.currentImage = NULL,
                            !.selectedAspectRatio = getActiveAspectRatio(o.env)]
       [] o.op = "combine" ->
            [c2 EXCEPT !.currentImage = img, !.prompt = "",
                       !.uploadedImages = <<>>]
       [] o.op = "reframe" ->
            [c2 EXCEPT !.currentImage = img, !.selectedAspectRatio = o.arg]
       [] o.op \in {"variations", "changeViewpoint", "inpaint"} ->
            [c2 EXCEPT !.currentImage = img]

ImageOps == {"generateOrEdit", "combine", "variations", "reframe",
             "changeViewpoint", "inpaint"}

\* a handler without its finally block
Finish_KeepsFlag(o) ==
  /\ inflight' = inflight \ {o}
  /\ UNCHANGED flags
\* finally { setIsX(false) }
Finish(o) ==
  /\ inflight' = inflight \ {o}
  /\ flags' = [flags EXCEPT ![FlagOf(o.op)] = FALSE]

\* the service returns an image to one of the six operations that store a
\* record for it
ImageResolved(o, img, seedUsed) ==
  /\ o \in inflight /\ o.op \in ImageOps
  /\ LET used == IF o.op = "generateOrEdit" THEN seedUsed ELSE 0
         item == NewHistoryItem(nextId, img, RecordPrompt(o), RecordMode(o),
                                NULL, used, o.env)
         r == createAndStoreHistoryItem(history, o.hlen, item)
         newcs == CommitImage(cs, o, img, seedUsed,
                              IF r.stored THEN nextId ELSE 0)
         newloads == loads \cup {ImageLoad(img, o.env)}
     IN /\ r.stored => CanCreateRecord
        /\ CanLoad(ImageLoad(img, o.env))
        /\ cs' = newcs
        /\ history' = r.history
        /\ nextId' = IF r.stored THEN nextId + 1 ELSE nextId
        /\ isHistoryFullWarningVisible' =
             (isHistoryFullWarningVisible \/ ~r.stored)
        /\ loads' = newloads
        /\ videoEl' = VideoElFor(newcs.currentVideoUrl, "operation")
  /\ selectedIndices' = IF o.op = "combine" THEN {} ELSE selectedIndices
  /\ isInpaintingMode' = IF o.op = "inpaint" THEN FALSE ELSE isInpaintingMode
  /\ Finish(o)
  /\ UNCHANGED <<undoStack, redoStack, reads, error, conversationalResponse,
                 is360View, isHistoryOpen, scenario, cos, autoSaveState, vxogPrompt, styleReferenceImage, audit, selectedHistoryImages>>
  /\ Spend(o)
  /\ AutosaveEffect

UpscaleResolved(o, img) ==
  /\ o \in inflight /\ o.op = "upscale"
  /\ LET newcs == [MediaSuccessImage(cs) EXCEPT !.currentImage = img]
         newloads == loads \cup {ImageLoad(img, o.env)}
     IN /\ CanLoad(ImageLoad(img, o.env))
        /\ cs' = newcs
        /\ loads' = newloads
        /\ videoEl' = VideoElFor(newcs.currentVideoUrl, "operation")
  /\ history' = updateHistoryItem(history, o.env.activeHistoryItemId, img, o.arg)
  /\ Finish(o)
  /\ UNCHANGED <<nextId, undoStack, redoStack, reads, error,
                 conversationalResponse, isHistoryFullWarningVisible,
                 is360View, isInpaintingMode, isHistoryOpen, selectedIndices,
                 scenario, cos, autoSaveState, vxogPrompt, styleReferenceImage, audit, selectedHistoryImages>>
  /\ Spend(o)
  /\ AutosaveEffect

\* a video URL no state of the run refers to yet (a new blob URL)
UsedVideos ==
  {cs.currentVideoUrl} \cup {undoStack[i].currentVideoUrl : i \in 1..Len(undoStack)}
  \cup {redoStack[i].currentVideoUrl : i \in 1..Len(redoStack)}
  \cup {history[i].videoSrc : i \in 1..Len(history)}

VideoResolved(o, url) ==
  /\ o \in inflight /\ o.op = "generateVideo"
  /\ url \notin UsedVideos
  /\ cs' = MediaSuccessVideo(cs, url)
  /\ videoEl' = [url |-> url, loaded |-> FALSE, cause |-> "generated",
                 fromImage |-> o.env.currentImage # NULL]
  /\ Finish(o)
  /\ UNCHANGED <<history, nextId, undoStack, redoStack, loads, reads, error,
                 conversationalResponse, isHistoryFullWarningVisible,
                 is360View, isInpaintingMode, isHistoryOpen, selectedIndices,
                 scenario, cos, autoSaveState, vxogPrompt, styleReferenceImage, audit, selectedHistoryImages>>
  /\ Spend(o)
  /\ AutosaveEffect

SurpriseMeResolved(o) ==
  /\ o \in inflight /\ o.op = "surpriseMe"
  /\ cs' = [cs EXCEPT !.prompt = CreativePrompt]
  /\ Finish(o)
  /\ UNCHANGED <<history, nextId, undoStack, redoStack, loads, reads, videoEl,
                 error, conversationalResponse, isHistoryFullWarningVisible,
                 is360View, isInpaintingMode, isHistoryOpen, selectedIndices,
                 scenario, cos, autoSaveState, vxogPrompt, styleReferenceImage, audit, selectedHistoryImages>>
  /\ Spend(o)
  /\ AutosaveEffect

\* the array the service returns is empty: the handler throws after the
\* statements that follow the await
ReturnsArray == {"generateOrEdit", "combine", "variations", "reframe", "inpaint"}
ServiceReturnedNothing(o) ==
  /\ o \in inflight /\ o.op \in ReturnsArray
  /\ cs' = IF o.op = "generateOrEdit" /\ o.env.currentImage = NULL
           THEN [cs EXCEPT !.selectedAspectRatio = getActiveAspectRatio(o.env)]
           ELSE cs
  /\ error' = "The model did not return an image."
  /\ Finish(o)
  /\ UNCHANGED <<history, nextId, undoStack, redoStack, loads, reads, videoEl,
                 conversationalResponse, isHistoryFullWarningVisible,
                 is360View, isInpaintingMode, isHistoryOpen, selectedIndices,
                 scenario, tokenUsage, cos, autoSaveState, vxogPrompt, styleReferenceImage, audit, selectedHistoryImages>>
  /\ AutosaveEffect

\* the service call rejects: catch { refusal ? conversational : error }; the
\* handlers of the two suggestion operations show every message as an error
NoRefusalBranch == {"suggestNegatives", "applyStyle"}
\* a catch block that charges the operation for the rejected call
ServiceRejected_Charged(o, refusal) ==
  /\ o \in inflight
  /\ IF refusal /\ o.op \notin NoRefusalBranch
     THEN conversationalResponse' = "refusal text" /\ UNCHANGED error
     ELSE error' = "service error" /\ UNCHANGED conversationalResponse
  /\ Finish(o)
  /\ tokenUsage' = updateTokenUsage(tokenUsage, TokenCost(o))
  /\ UNCHANGED <<cs, history, nextId, undoStack, redoStack, loads, reads,
                 videoEl, isHistoryFullWarningVisible, is360View,
                 isInpaintingMode, isHistoryOpen, selectedIndices, scenario, cos, autoSaveState, vxogPrompt, styleReferenceImage,
                 audit, selectedHistoryImages>>
  /\ AutosaveEffect
\* catch (err) { ... } finally { ... }
ServiceRejected(o, refusal) ==
  /\ o \in inflight
  /\ IF refusal /\ o.op \notin NoRefusalBranch
     THEN conversationalResponse' = "refusal text" /\ UNCHANGED error
     ELSE error' = "service error" /\ UNCHANGED conversationalResponse
  /\ Finish(o)
  /\ UNCHANGED <<cs, history, nextId, undoStack, redoStack, loads, reads,
                 videoEl, isHistoryFullWarningVisible, is360View,
                 isInpaintingMode, isHistoryOpen, selectedIndices, scenario, tokenUsage, cos, autoSaveState, vxogPrompt, styleReferenceImage,
                 audit, selectedHistoryImages>>
  /\ AutosaveEffect

\* a service function throws new Error(parseGeminiError(error)) and the
\* handler of operation o catches it
ServiceFailed(o, message) ==
  ServiceRejected(o, StartsWith(parseGeminiError(message), RefusalMarker))

(* ------------------------------ callbacks ------------------------------ *)

\* img.onload of an Image() created by handleMediaSuccess
ImgOnload(l) ==
  /\ l \in loads
  /\ cs' = OnLoad(cs, l)
  /\ loads' = loads \ {l}
  /\ UNCHANGED <<history, nextId, undoStack, redoStack, flags, inflight, reads,
                 videoEl, error, conversationalResponse,
                 isHistoryFullWarningVisible, is360View, isInpaintingMode,
                 isHistoryOpen, selectedIndices, scenario, tokenUsage, cos, autoSaveState, vxogPrompt, styleReferenceImage, audit, selectedHistoryImages>>
  /\ AutosaveEffect

\* img.onerror
ImgOnerror(l) ==
  /\ l \in loads
  /\ cs' = [cs EXCEPT !.imageDimensions = NULL]
  /\ error' = "Failed to load the generated image."
  /\ loads' = loads \ {l}
  /\ UNCHANGED <<history, nextId, undoStack, redoStack, flags, inflight, reads,
                 videoEl, conversationalResponse, isHistoryFullWarningVisible,
                 is360View, isInpaintingMode, isHistoryOpen, selectedIndices,
                 scenario, tokenUsage, cos, autoSaveState, vxogPrompt, styleReferenceImage, audit, selectedHistoryImages>>
  /\ AutosaveEffect

\* onLoadedData of the <video> element: fires once for each mounted element
handleVideoLoaded ==
  /\ videoEl.url # NULL /\ ~videoEl.loaded
  /\ LET mode == IF cs.currentImage # NULL THEN "image-to-video"
                 ELSE "text-to-video"
         item == NewHistoryItem(nextId, VideoThumbnail, cs.prompt, mode,
                                videoEl.url, 0, cs)
         r == createAndStoreHistoryItem(history, Len(history), item)
         c1 == IF r.stored THEN [cs EXCEPT !.activeHistoryItemId = nextId]
               ELSE cs
     IN /\ r.stored => CanCreateRecord
        /\ history' = r.history
        /\ nextId' = IF r.stored THEN nextId + 1 ELSE nextId
        /\ isHistoryFullWarningVisible' =
             (isHistoryFullWarningVisible \/ ~r.stored)
        /\ cs' = IF cs.currentImage # NULL
                 THEN [c1 EXCEPT !.currentImage = NULL, !.prompt = ""]
                 ELSE c1
  /\ videoEl' = [videoEl EXCEPT !.loaded = TRUE]
  /\ UNCHANGED <<undoStack, redoStack, flags, inflight, loads, reads, error,
                 conversationalResponse, is360View, isInpaintingMode,
                 isHistoryOpen, selectedIndices, scenario, tokenUsage, cos, autoSaveState, vxogPrompt, styleReferenceImage, audit, selectedHistoryImages>>
  /\ AutosaveEffect

(* ------------------------------ undo, redo ----------------------------- *)

Triple == [cs |-> cs, undo |-> undoStack, redo |-> redoStack]

\* in the stack scenario the user undoes once the pushes have reached the
\* limit of the stack
CanUndo ==
  scenario = "stack" =>
    audit.undos < MaxUndos /\ audit.pushes >= MAX_UNDO_STACK_SIZE

handleUndo ==
  /\ PanelUsable /\ ~isBusy
  /\ undoStack # <<>>
  /\ CanUndo
  /\ LET t == UndoStep(Triple)
     IN /\ cs' = t.cs /\ undoStack' = t.undo /\ redoStack' = t.redo
        /\ videoEl' = VideoElFor(t.cs.currentVideoUrl, "undo")
  /\ loads' = Superseded(loads)
  /\ audit' = IF scenario = "stack"
              THEN [audit EXCEPT !.undos = @ + 1, !.pure = FALSE] ELSE audit
  /\ UNCHANGED <<history, nextId, flags, inflight, reads, error,
                 conversationalResponse, isHistoryFullWarningVisible,
                 is360View, isInpaintingMode, isHistoryOpen, selectedIndices,
                 scenario, tokenUsage, cos, autoSaveState, vxogPrompt, styleReferenceImage, selectedHistoryImages>>
  /\ AutosaveEffect

handleRedo ==
  /\ PanelUsable /\ ~isBusy
  /\ redoStack # <<>>
  /\ LET t == RedoStep(Triple)
     IN /\ cs' = t.cs /\ undoStack' = t.undo /\ redoStack' = t.redo
        /\ videoEl' = VideoElFor(t.cs.currentVideoUrl, "redo")
  /\ loads' = Superseded(loads)
  /\ UNCHANGED <<history, nextId, flags, inflight, reads, error,
                 conversationalResponse, isHistoryFullWarningVisible,
                 is360View, isInpaintingMode, isHistoryOpen, selectedIndices,
                 scenario, tokenUsage, cos, autoSaveState, vxogPrompt, styleReferenceImage, audit, selectedHistoryImages>>
  /\ AutosaveEffect

(* --------------------- start fresh, history selection ------------------ *)

handleNewVision ==
  /\ PanelUsable /\ ~isBusy
  /\ hasMedia
  /\ Checkpoint(cs)
  /\ cs' = [cs EXCEPT !.currentImage = NULL, !.bgUrl1 = NULL, !.bgUrl2 = NULL,
                      !.isBg1Active = TRUE, !.prompt = "",
                      !.uploadedImages = <<>>, !.activeHistoryItemId = 0,
                      !.imageDimensions = NULL, !.currentVideoUrl = NULL,
                      !.seed = "", !.lastSeed = 0]
  /\ selectedIndices' = {}
  /\ error' = NULL /\ conversationalResponse' = NULL
  /\ videoEl' = NoVideoEl
  /\ tokenUsage' = [last |-> 0, session |-> 0]
  /\ loads' = Superseded(loads)
  /\ clearAutoSave
  /\ UNCHANGED <<history, nextId, flags, inflight, reads,
                 isHistoryFullWarningVisible, is360View, isInpaintingMode,
                 isHistoryOpen, scenario, cos, vxogPrompt, styleReferenceImage, selectedHistoryImages>>

\* the part of handleSelectHistoryItem that follows handleMediaSuccess
SelectCommon(c, item) ==
  [c EXCEPT !.prompt = item.prompt,
            !.activeHistoryItemId = item.id,
            !.lastSeed = item.seed,
            !.seed = SeedString(item.seed),
            !.negativePrompt = item.voxSettings.negativePrompt,
            !.activeStyles = NewSet(item.voxSettings.activeStyles),
            !.detailIntensity = item.voxSettings.detailIntensity,
            !.selectedAspectRatio = item.voxSettings.aspectRatio]

\* the records of the history list the user picks from
Selectable ==
  IF scenario = "stack"
  THEN {i \in 1..Len(history) :
          /\ i <= 2
          /\ history[i].id # cs.activeHistoryItemId}
  ELSE {i \in 1..Len(history) : i \in {1, 2, Len(history)}}

handleSelectHistoryItem(i) ==
  /\ isHistoryOpen /\ ~ModalOpen
  /\ i \in Selectable
  /\ Checkpoint(cs)
  /\ LET item == history[i]
         newcs == IF item.videoSrc # NULL
                  THEN SelectCommon(MediaSuccessVideo(cs, item.videoSrc), item)
                  ELSE SelectCommon([MediaSuccessImage(cs) EXCEPT
                                       !.currentImage = item.src], item)
         newloads == IF item.videoSrc # NULL THEN Superseded(loads)
                     ELSE Superseded(loads) \cup {ImageLoad(item.src, cs)}
     IN /\ item.videoSrc = NULL => CanLoad(ImageLoad(item.src, cs))
        /\ cs' = newcs
        /\ loads' = newloads
        /\ videoEl' = VideoElFor(newcs.currentVideoUrl, "select")
  /\ error' = NULL /\ conversationalResponse' = NULL
  /\ isHistoryOpen' = FALSE
  /\ clearAutoSave
  /\ UNCHANGED <<history, nextId, flags, inflight, reads,
                 isHistoryFullWarningVisible, is360View, isInpaintingMode,
                 selectedIndices, scenario, tokenUsage, cos, vxogPrompt, styleReferenceImage, selectedHistoryImages>>

(* ------------------------------ history panel -------------------------- *)

\* the history button of the main panel
openHistory ==
  /\ PanelUsable /\ ~isBusy
  /\ ~isHistoryOpen
  /\ isHistoryOpen' = TRUE
  /\ UNCHANGED <<cs, history, nextId, undoStack, redoStack, flags, inflight,
                 loads, reads, videoEl, error, conversationalResponse,
                 isHistoryFullWarningVisible, is360View, isInpaintingMode,
                 selectedIndices, scenario, tokenUsage, cos, autoSaveState, vxogPrompt, styleReferenceImage, audit, selectedHistoryImages>>
  /\ AutosaveEffect

closeHistory ==
  /\ isHistoryOpen /\ ~ModalOpen
  /\ isHistoryOpen' = FALSE
  /\ UNCHANGED <<cs, history, nextId, undoStack, redoStack, flags, inflight,
                 loads, reads, videoEl, error, conversationalResponse,
                 isHistoryFullWarningVisible, is360View, isInpaintingMode,
                 selectedIndices, scenario, tokenUsage, cos, autoSaveState, vxogPrompt, styleReferenceImage, audit, selectedHistoryImages>>
  /\ AutosaveEffect

\* the button of the history-full warning
manageHistory ==
  /\ isHistoryFullWarningVisible /\ ~flags["isVideoLoading"]
  /\ vxogPrompt = NULL
  /\ isHistoryFullWarningVisible' = FALSE
  /\ isHistoryOpen' = TRUE
  /\ UNCHANGED <<cs, history, nextId, undoStack, redoStack, flags, inflight,
                 loads, reads, videoEl, error, conversationalResponse,
                 is360View, isInpaintingMode, selectedIndices, scenario, tokenUsage, cos, autoSaveState, vxogPrompt, styleReferenceImage, audit, selectedHistoryImages>>
  /\ AutosaveEffect

\* the check boxes the user ticks: the oldest and the newest record
Tickable == {history[i].id : i \in {j \in 1..Len(history) : j \in {1, Len(history)}}}

handleToggleHistorySelection(id) ==
  /\ isHistoryOpen /\ ~ModalOpen
  /\ id \in Tickable
  /\ selectedHistoryImages' =
       IF id \in selectedHistoryImages THEN selectedHistoryImages \ {id}
       ELSE selectedHistoryImages \cup {id}
  /\ UNCHANGED <<cs, history, nextId, undoStack, redoStack, flags, inflight,
                 loads, reads, videoEl, error, conversationalResponse,
                 isHistoryFullWarningVisible, is360View, isInpaintingMode,
                 isHistoryOpen, selectedIndices, scenario, tokenUsage, cos, autoSaveState, vxogPrompt, styleReferenceImage, audit>>
  /\ AutosaveEffect

handleDeleteSelectedHistory ==
  /\ isHistoryOpen /\ ~ModalOpen
  /\ history # <<>> /\ selectedHistoryImages # {}
  /\ history' = deleteHistoryItems(history, selectedHistoryImages)
  /\ selectedHistoryImages' = {}
  /\ UNCHANGED <<cs, nextId, undoStack, redoStack, flags, inflight,
                 loads, reads, videoEl, error, conversationalResponse,
                 isHistoryFullWarningVisible, is360View, isInpaintingMode,
                 isHistoryOpen, selectedIndices, scenario, tokenUsage, cos, autoSaveState, vxogPrompt, styleReferenceImage, audit>>
  /\ AutosaveEffect

\* the user confirms window.confirm
handleClearHistory ==
  /\ isHistoryOpen /\ ~ModalOpen
  /\ history # <<>>
  /\ history' = clearHistory(history)
  /\ UNCHANGED <<cs, nextId, undoStack, redoStack, flags, inflight,
                 loads, reads, videoEl, error, conversationalResponse,
                 isHistoryFullWarningVisible, is360View, isInpaintingMode,
                 isHistoryOpen, selectedIndices, scenario, tokenUsage, cos, autoSaveState, vxogPrompt, styleReferenceImage, audit, selectedHistoryImages>>
  /\ AutosaveEffect

(* --------------------------- view and inpainting ----------------------- *)

toggle360View ==
  /\ PanelUsable
  /\ hasMedia /\ cs.currentVideoUrl = NULL
  /\ is360View' = ~is360View
  /\ UNCHANGED <<cs, history, nextId, undoStack, redoStack, flags, inflight,
                 loads, reads, videoEl, error, conversationalResponse,
                 isHistoryFullWarningVisible, isInpaintingMode, isHistoryOpen,
                 selectedIndices, scenario, tokenUsage, cos, autoSaveState, vxogPrompt, styleReferenceImage, audit, selectedHistoryImages>>
  /\ AutosaveEffect

enterInpaintingMode ==
  /\ PanelUsable /\ ~isBusy
  /\ hasMedia /\ cs.currentVideoUrl = NULL
  /\ isInpaintingMode' = TRUE
  /\ UNCHANGED <<cs, history, nextId, undoStack, redoStack, flags, inflight,
                 loads, reads, videoEl, error, conversationalResponse,
                 isHistoryFullWarningVisible, is360View, isHistoryOpen,
                 selectedIndices, scenario, tokenUsage, cos, autoSaveState, vxogPrompt, styleReferenceImage, audit, selectedHistoryImages>>
  /\ AutosaveEffect

exitInpaintingMode ==
  /\ isInpaintingMode /\ ~ModalOpen
  /\ ~flags["isInpaintingLoading"]
  /\ isInpaintingMode' = FALSE
  /\ UNCHANGED <<cs, history, nextId, undoStack, redoStack, flags, inflight,
                 loads, reads, videoEl, error, conversationalResponse,
                 isHistoryFullWarningVisible, is360View, isHistoryOpen,
                 selectedIndices, scenario, tokenUsage, cos, autoSaveState, vxogPrompt, styleReferenceImage, audit, selectedHistoryImages>>
  /\ AutosaveEffect

(* -------------------------------- uploads ------------------------------ *)

\* Array.prototype.slice(0, k) applied to n files
SliceTo(n, k) == IF k <= 0 THEN 0 ELSE IF n <= k THEN n ELSE k

\* what a run lets the user stage and have pending; the uploads scenario
\* leaves room for two full selections
UploadLimits ==
  IF scenario = "uploads"
  THEN [staged |-> 2 * MaxUploadFiles, reads |-> MaxUploadReads]
  ELSE [staged |-> MaxStaged, reads |-> MaxPendingReads]

\* the file input: the selection is sliced, the reads are started
handleFilesSelected(n) ==
  /\ PanelUsable /\ ~isBusy
  /\ Len(cs.uploadedImages) < MAX_UPLOADS
  /\ Len(cs.uploadedImages) + n <= UploadLimits.staged
  /\ Cardinality(reads) < UploadLimits.reads
  /\ LET r == [count |-> SliceTo(n, MAX_UPLOADS - Len(cs.uploadedImages)),
               env |-> cs]
     IN r \notin reads /\ reads' = reads \cup {r}
  /\ UNCHANGED <<cs, history, nextId, undoStack, redoStack, flags, inflight,
                 loads, videoEl, error, conversationalResponse,
                 isHistoryFullWarningVisible, is360View, isInpaintingMode,
                 isHistoryOpen, selectedIndices, scenario, tokenUsage, cos, autoSaveState, vxogPrompt, styleReferenceImage, audit, selectedHistoryImages>>
  /\ AutosaveEffect

\* the reads of a selection complete: the rest of handleFilesSelected
FilesRead(r) ==
  /\ r \in reads
  /\ r.count > 1 => Len(cs.uploadedImages) + r.count <= UploadLimits.staged
  /\ reads' = reads \ {r}
  /\ IF r.count = 1
     THEN /\ Checkpoint(r.env)
          /\ LET newcs == [MediaSuccessImage(cs) EXCEPT
                             !.currentImage = UploadedFile, !.prompt = "",
                             !.uploadedImages = <<>>]
                 newloads == loads \cup {ImageLoad(UploadedFile, r.env)}
             IN /\ CanLoad(ImageLoad(UploadedFile, r.env))
                /\ cs' = newcs
                /\ loads' = newloads
                /\ videoEl' = VideoElFor(newcs.currentVideoUrl, "upload")
          /\ selectedIndices' = {}
     ELSE /\ cs' = [cs EXCEPT !.uploadedImages =
                      @ \o [i \in 1..r.count |-> UploadedFile]]
          /\ UNCHANGED <<undoStack, redoStack, audit, loads, videoEl,
                         selectedIndices>>
  /\ UNCHANGED <<history, nextId, flags, inflight, error,
                 conversationalResponse, isHistoryFullWarningVisible,
                 is360View, isInpaintingMode, isHistoryOpen, scenario, tokenUsage, cos, autoSaveState, vxogPrompt, styleReferenceImage, selectedHistoryImages>>
  /\ AutosaveEffect

\* staged images are indexed from 0
handleToggleSelection(index) ==
  /\ PanelUsable
  /\ index \in 0..(Len(cs.uploadedImages) - 1)
  /\ selectedIndices' = IF index \in selectedIndices
                        THEN selectedIndices \ {index}
                        ELSE selectedIndices \cup {index}
  /\ UNCHANGED <<cs, history, nextId, undoStack, redoStack, flags, inflight,
                 loads, reads, videoEl, error, conversationalResponse,
                 isHistoryFullWarningVisible, is360View, isInpaintingMode,
                 isHistoryOpen, scenario, tokenUsage, cos, autoSaveState, vxogPrompt, styleReferenceImage, audit, selectedHistoryImages>>
  /\ AutosaveEffect

\* the x button of a staged image: prev.filter((_, index) => index !==
\* indexToRemove) on the staged images, newSelection.delete(indexToRemove) on
\* the selection
handleRemoveUploadedImage(indexToRemove) ==
  /\ PanelUsable
  /\ indexToRemove \in 0..(Len(cs.uploadedImages) - 1)
  /\ cs' = [cs EXCEPT !.uploadedImages =
                        [j \in 1..(Len(@) - 1) |->
                           IF j <= indexToRemove THEN @[j] ELSE @[j + 1]]]
  /\ selectedIndices' = selectedIndices \ {indexToRemove}
  /\ UNCHANGED <<history, nextId, undoStack, redoStack, flags, inflight,
                 loads, reads, videoEl, error, conversationalResponse,
                 isHistoryFullWarningVisible, is360View, isInpaintingMode,
                 isHistoryOpen, scenario, tokenUsage, cos, autoSaveState, vxogPrompt, styleReferenceImage, audit, selectedHistoryImages>>
  /\ AutosaveEffect

(* ----------------------- analysis and prompt tools --------------------- *)

\* room for one more suggestion appended to a prompt
CanAnalyze == audit.analyses < MaxAnalyses

handleGenerateVxog ==
  /\ PanelUsable /\ ~isBusy
  /\ hasMedia
  /\ IF SourceImage(cs) = NULL THEN Abort
     ELSE /\ Begin("vxog", "", TRUE, cs)

VxogResolved(o) ==
  /\ o \in inflight /\ o.op = "vxog"
  /\ vxogPrompt' = VisualPrompt
  /\ Finish(o)
  /\ UNCHANGED <<cs, history, nextId, undoStack, redoStack, loads, reads,
                 videoEl, error, conversationalResponse,
                 isHistoryFullWarningVisible, is360View, isInpaintingMode,
                 isHistoryOpen, selectedIndices, selectedHistoryImages,
                 styleReferenceImage, scenario, cos, autoSaveState, audit>>
  /\ Spend(o)
  /\ AutosaveEffect

\* the modal is closed, by its backdrop or by its use-prompt button
closeVxogPrompt(use) ==
  /\ vxogPrompt # NULL /\ ~flags["isVideoLoading"]
  /\ cs' = IF use THEN [cs EXCEPT !.prompt = vxogPrompt] ELSE cs
  /\ vxogPrompt' = NULL
  /\ UNCHANGED <<history, nextId, undoStack, redoStack, flags, inflight, loads,
                 reads, videoEl, error, conversationalResponse,
                 isHistoryFullWarningVisible, is360View, isInpaintingMode,
                 isHistoryOpen, selectedIndices, selectedHistoryImages,
                 styleReferenceImage, scenario, tokenUsage, cos, autoSaveState, audit>>
  /\ AutosaveEffect

handleAnalyzeScene ==
  /\ PanelUsable /\ ~isBusy
  /\ hasMedia
  /\ IF SourceImage(cs) = NULL THEN Abort
     ELSE /\ Begin("analyzeScene", "", FALSE, cs)

AnalyzeSceneResolved(o) ==
  /\ o \in inflight /\ o.op = "analyzeScene"
  /\ conversationalResponse' = "suggestions"
  /\ Finish(o)
  /\ UNCHANGED <<cs, history, nextId, undoStack, redoStack, loads, reads,
                 videoEl, error, isHistoryFullWarningVisible, is360View,
                 isInpaintingMode, isHistoryOpen, selectedIndices,
                 selectedHistoryImages, vxogPrompt, styleReferenceImage,
                 scenario, cos, autoSaveState, audit>>
  /\ Spend(o)
  /\ AutosaveEffect

\* the two suggestion operations: setError(null) alone, no checkpoint
BeginSuggestion(op) ==
  /\ CanAnalyze
  /\ flags' = [flags EXCEPT ![FlagOf(op)] = TRUE]
  /\ error' = NULL
  /\ inflight' = inflight \cup
       {[op |-> op, arg |-> "", env |-> cs, hlen |-> Len(history),
         sel |-> selectedIndices]}
  /\ audit' = [audit EXCEPT !.analyses = @ + 1]
  /\ UNCHANGED <<cs, history, nextId, undoStack, redoStack, loads, reads,
                 videoEl, conversationalResponse, isHistoryFullWarningVisible,
                 is360View, isInpaintingMode, isHistoryOpen, selectedIndices,
                 selectedHistoryImages, vxogPrompt, styleReferenceImage,
                 scenario, tokenUsage, cos, autoSaveState>>
  /\ AutosaveEffect

\* prev ? `${prev}, ${suggestion}` : suggestion
Appended(prev, suggestion) ==
  IF prev = "" THEN suggestion ELSE prev \o ", " \o suggestion

handleSuggestNegatives ==
  /\ PanelUsable /\ ~isBusy
  /\ cs.prompt # ""
  /\ BeginSuggestion("suggestNegatives")

handleApplyStyle ==
  /\ PanelUsable /\ ~isBusy
  /\ styleReferenceImage # NULL
  /\ BeginSuggestion("applyStyle")

SuggestionResolved(o) ==
  /\ o \in inflight /\ o.op \in {"suggestNegatives", "applyStyle"}
  /\ cs' = IF o.op = "suggestNegatives"
           THEN [cs EXCEPT !.negativePrompt = Appended(@, "noisy")]
           ELSE [cs EXCEPT !.prompt = Appended(@, "oil paint")]
  /\ Finish(o)
  /\ UNCHANGED <<history, nextId, undoStack, redoStack, loads, reads, videoEl,
                 error, conversationalResponse, isHistoryFullWarningVisible,
                 is360View, isInpaintingMode, isHistoryOpen, selectedIndices,
                 selectedHistoryImages, vxogPrompt, styleReferenceImage,
                 scenario, cos, autoSaveState, audit>>
  /\ Spend(o)
  /\ AutosaveEffect

\* reader.onloadend of the style reference the user picked
handleStyleFileSelected ==
  /\ PanelUsable
  /\ styleReferenceImage = NULL
  /\ styleReferenceImage' = UploadedFile
  /\ UNCHANGED <<cs, history, nextId, undoStack, redoStack, flags, inflight,
                 loads, reads, videoEl, error, conversationalResponse,
                 isHistoryFullWarningVisible, is360View, isInpaintingMode,
                 isHistoryOpen, selectedIndices, selectedHistoryImages,
                 vxogPrompt, scenario, tokenUsage, cos, autoSaveState, audit>>
  /\ AutosaveEffect

\* the analysis and prompt tools of the main panel
Tools ==
  \/ handleGenerateVxog
  \/ \E o \in inflight : VxogResolved(o)
  \/ \E use \in BOOLEAN : closeVxogPrompt(use)
  \/ handleAnalyzeScene
  \/ \E o \in inflight : AnalyzeSceneResolved(o)
  \/ handleSuggestNegatives
  \/ handleApplyStyle
  \/ \E o \in inflight : SuggestionResolved(o)
  \/ handleStyleFileSelected

(* ---------------------------- timer and restore ------------------------ *)

\* the 60 s interval of the autosave effect elapses
AutosaveTick ==
  /\ hasContent(cs)
  /\ storage' = saveCurrentSession(captureState(cs))
  /\ audit' = [audit EXCEPT !.saved = TRUE]
  /\ UNCHANGED <<cs, history, nextId, undoStack, redoStack, flags, inflight,
                 loads, reads, videoEl, error, conversationalResponse,
                 isHistoryFullWarningVisible, is360View, isInpaintingMode,
                 isHistoryOpen, selectedIndices, selectedHistoryImages,
                 vxogPrompt, styleReferenceImage, autoSaveState, scenario, tokenUsage, cos>>

\* the restore button of the restore dialog
handleRestoreSession ==
  /\ autoSaveState # NoSession
  /\ cs' = restoreState(autoSaveState)
  /\ clearAutoSave
  /\ videoEl' = VideoElFor(cs'.currentVideoUrl, "restore")
  /\ UNCHANGED <<history, nextId, undoStack, redoStack, flags, inflight,
                 loads, reads, error, conversationalResponse,
                 isHistoryFullWarningVisible, is360View, isInpaintingMode,
                 isHistoryOpen, selectedIndices, selectedHistoryImages,
                 vxogPrompt, styleReferenceImage, scenario, tokenUsage, cos, audit>>

\* the discard button of the restore dialog
handleDiscardSession ==
  /\ autoSaveState # NoSession
  /\ clearAutoSave
  /\ UNCHANGED <<cs, history, nextId, undoStack, redoStack, flags, inflight,
                 loads, reads, videoEl, error, conversationalResponse,
                 isHistoryFullWarningVisible, is360View, isInpaintingMode,
                 isHistoryOpen, selectedIndices, selectedHistoryImages,
                 vxogPrompt, styleReferenceImage, scenario, tokenUsage, cos, audit>>

(* ---------------------------- specifications --------------------------- *)

Prompts == {UserPrompt}
Resolutions == {"2x"}
Ratios == {"1:1"}
Directions == {"left"}

\* the operations of the main panel, their results and the callbacks
Operations ==
  \/ \E newPrompt \in Prompts : handlePromptChange(newPrompt)
  \/ handleGenerateOrEdit
  \/ handleGenerateVideo
  \/ \E resolution \in Resolutions : handleUpscale(resolution)
  \/ handleSurpriseMe
  \/ handleGenerateVariations
  \/ \E newRatio \in Ratios : handleReframe(newRatio)
  \/ \E direction \in Directions : handleChangeViewpoint(direction)
  \/ handleApplyInpainting
  \/ \E o \in inflight, img \in ServiceImages, seedUsed \in ServiceSeeds :
       ImageResolved(o, img, seedUsed)
  \/ \E o \in inflight, img \in ServiceImages : UpscaleResolved(o, img)
  \/ \E o \in inflight, url \in ServiceVideos : VideoResolved(o, url)
  \/ \E o \in inflight : SurpriseMeResolved(o)
  \/ \E o \in inflight : ServiceReturnedNothing(o)
  \/ \E o \in inflight, refusal \in BOOLEAN : ServiceRejected(o, refusal)
  \/ \E l \in loads : ImgOnload(l)
  \/ \E l \in loads : ImgOnerror(l)
  \/ handleVideoLoaded
  \/ handleNewVision
  \/ manageHistory
  \/ closeHistory
  \/ toggle360View
  \/ enterInpaintingMode
  \/ exitInpaintingMode

\* a session without staged uploads and with the history panel closed
Next ==
  \/ Operations
  \/ handleUndo
  \/ handleRedo

Spec == Init /\ [][Next]_vars

\* a session with the analysis and prompt tools, and nothing undone
NextTools ==
  \/ Operations
  \/ Tools

SpecTools == InitTools /\ [][NextTools]_vars

\* a session with files staged and combined, and nothing undone
NextStaging ==
  \/ Operations
  \/ handleCombineImages
  \/ \E n \in 1..MaxFiles : handleFilesSelected(n)
  \/ \E r \in reads : FilesRead(r)
  \/ \E index \in 0..(MAX_UPLOADS - 1) : handleToggleSelection(index)

SpecStaging == InitStaging /\ [][NextStaging]_vars

\* a session in which the autosave interval elapses now and then, started
\* with or without a session stored by an earlier visit
NextAutosave ==
  \/ \E newPrompt \in Prompts \cup {""} : handlePromptChange(newPrompt)
  \/ handleGenerateOrEdit
  \/ handleGenerateVideo
  \/ \E o \in inflight, img \in ServiceImages, seedUsed \in ServiceSeeds :
       ImageResolved(o, img, seedUsed)
  \/ \E o \in inflight, url \in ServiceVideos : VideoResolved(o, url)
  \/ \E o \in inflight, refusal \in BOOLEAN : ServiceRejected(o, refusal)
  \/ \E l \in loads : ImgOnload(l)
  \/ \E l \in loads : ImgOnerror(l)
  \/ handleVideoLoaded
  \/ handleNewVision
  \/ \E n \in 1..MaxFiles : handleFilesSelected(n)
  \/ \E r \in reads : FilesRead(r)
  \/ AutosaveTick

SpecAutosave == InitAutosave /\ [][NextAutosave]_vars

\* the restore dialog answered, and the prompt edited afterwards
NextRestore ==
  \/ handleRestoreSession
  \/ handleDiscardSession
  \/ \E newPrompt \in Prompts \cup {""} : handlePromptChange(newPrompt)
  \/ AutosaveTick

SpecRestore == InitRestore /\ [][NextRestore]_vars

\* files selected while earlier selections are still being read, staged
\* images ticked and combined, steps undone and redone
NextUploads ==
  \/ \E n \in {1, MaxUploadFiles} : handleFilesSelected(n)
  \/ \E r \in reads : FilesRead(r)
  \/ \E index \in 0..1 : handleToggleSelection(index)
  \/ \E newPrompt \in Prompts : handlePromptChange(newPrompt)
  \/ handleCombineImages
  \/ \E o \in inflight, img \in ServiceImages, seedUsed \in ServiceSeeds :
       ImageResolved(o, img, seedUsed)
  \/ \E l \in loads : ImgOnload(l)
  \/ handleUndo
  \/ handleRedo

SpecUploads == InitUploads /\ [][NextUploads]_vars

\* a session in which files are staged, ticked, removed again and combined,
\* and steps are undone and redone
NextRemovals ==
  \/ \E n \in 1..MaxFiles : handleFilesSelected(n)
  \/ \E r \in reads : FilesRead(r)
  \/ \E index \in 0..(MAX_UPLOADS - 1) : handleToggleSelection(index)
  \/ \E indexToRemove \in 0..(MAX_UPLOADS - 1) :
       handleRemoveUploadedImage(indexToRemove)
  \/ \E newPrompt \in Prompts : handlePromptChange(newPrompt)
  \/ handleCombineImages
  \/ \E o \in inflight, img \in ServiceImages, seedUsed \in ServiceSeeds :
       ImageResolved(o, img, seedUsed)
  \/ \E l \in loads : ImgOnload(l)
  \/ handleUndo
  \/ handleRedo

SpecRemovals == Init /\ [][NextRemovals]_vars

\* images and videos generated one after the other
NextSlots ==
  \/ \E newPrompt \in Prompts : handlePromptChange(newPrompt)
  \/ handleGenerateOrEdit
  \/ handleGenerateVideo
  \/ \E o \in inflight, img \in ServiceImages, seedUsed \in ServiceSeeds :
       ImageResolved(o, img, seedUsed)
  \/ \E o \in inflight, url \in ServiceVideos : VideoResolved(o, url)
  \/ \E l \in loads : ImgOnload(l)
  \/ handleVideoLoaded

SpecSlots == InitSlots /\ [][NextSlots]_vars

\* the nine operations with the outcomes of their service call, the token
\* meter followed; a generated video costs more than such a run may spend, so
\* that a video generation of the run ends in a failure
NextMeter ==
  \/ \E newPrompt \in Prompts : handlePromptChange(newPrompt)
  \/ handleGenerateOrEdit
  \/ handleGenerateVideo
  \/ handleCombineImages
  \/ \E resolution \in Resolutions : handleUpscale(resolution)
  \/ handleSurpriseMe
  \/ handleGenerateVariations
  \/ \E newRatio \in Ratios : handleReframe(newRatio)
  \/ \E direction \in Directions : handleChangeViewpoint(direction)
  \/ handleApplyInpainting
  \/ \E o \in inflight, img \in ServiceImages, seedUsed \in ServiceSeeds :
       ImageResolved(o, img, seedUsed)
  \/ \E o \in inflight, img \in ServiceImages : UpscaleResolved(o, img)
  \/ \E o \in inflight : SurpriseMeResolved(o)
  \/ \E o \in inflight : ServiceReturnedNothing(o)
  \/ \E o \in inflight, message \in ServiceMessages : ServiceFailed(o, message)
  \/ \E l \in loads : ImgOnload(l)
  \/ toggle360View
  \/ enterInpaintingMode
  \/ exitInpaintingMode
  \/ \E n \in {MaxFiles} : handleFilesSelected(n)
  \/ \E r \in reads : FilesRead(r)
  \/ \E index \in 0..1 : handleToggleSelection(index)

SpecMeter == InitMeter /\ [][NextMeter]_vars

\* the COS page: an image uploaded, a style chosen, batches started and
\* cancelled
NextCOS ==
  \/ handleImageUpload
  \/ \E style \in {"preset"} : setSelectedStyle(style)
  \/ handleGenerate
  \/ \E l \in cos.loops : EditResolved(l)
  \/ \E l \in cos.loops : EditRejected(l)
  \/ handleCancel

SpecCOS == InitCOS /\ [][NextCOS]_vars

\* the history panel: records selected, ticked, deleted
NextLedger ==
  \/ \E newPrompt \in Prompts : handlePromptChange(newPrompt)
  \/ handleGenerateOrEdit
  \/ \E o \in inflight, img \in ServiceImages, seedUsed \in ServiceSeeds :
       ImageResolved(o, img, seedUsed)
  \/ \E o \in inflight, refusal \in BOOLEAN : ServiceRejected(o, refusal)
  \/ \E l \in loads : ImgOnload(l)
  \/ handleVideoLoaded
  \/ handleUndo
  \/ handleRedo
  \/ manageHistory
  \/ openHistory
  \/ closeHistory
  \/ \E i \in 1..Len(history) : handleSelectHistoryItem(i)
  \/ \E id \in Tickable : handleToggleHistorySelection(id)
  \/ handleDeleteSelectedHistory
  \/ handleClearHistory

SpecLedger == InitLedger /\ [][NextLedger]_vars

\* the undo stack driven past its limit: checkpoints taken by history
\* selections, with undo and redo in between
NextStack ==
  \/ openHistory
  \/ \E i \in 1..Len(history) : handleSelectHistoryItem(i)
  \/ \E l \in loads : ImgOnload(l)
  \/ handleUndo
  \/ handleRedo

SpecStack == InitStack /\ [][NextStack]_vars

(* ------------------------------ properties ----------------------------- *)

InFlight(ops) == {o \in inflight : o.op \in ops}

\* C1: at most one of the nine generation-style operations is in flight at
\* any time.
C1_MutualExclusion == Cardinality(InFlight(GenerationOps)) <= 1

GatedAttempt ==
  \/ handleGenerateOrEdit /\ cs.prompt # ""
  \/ handleGenerateVideo /\ cs.prompt # ""
  \/ handleCombineImages /\ Cardinality(selectedIndices) >= 2 /\ cs.prompt # ""
  \/ handleGenerateVariations /\ SourceImage(cs) # NULL
  \/ (\E newRatio \in Ratios : handleReframe(newRatio)) /\ SourceImage(cs) # NULL
  \/ (\E direction \in Directions : handleChangeViewpoint(direction))
       /\ SourceImage(cs) # NULL
  \/ handleApplyInpainting /\ SourceImage(cs) # NULL

\* an invocation of any of the nine operations
AnyAttempt ==
  \/ handleGenerateOrEdit
  \/ handleGenerateVideo
  \/ handleCombineImages
  \/ \E resolution \in Resolutions : handleUpscale(resolution)
  \/ handleSurpriseMe
  \/ handleGenerateVariations
  \/ \E newRatio \in Ratios : handleReframe(newRatio)
  \/ \E direction \in Directions : handleChangeViewpoint(direction)
  \/ handleApplyInpainting

RECURSIVE Undos(_, _)
Undos(t, n) ==
  IF n = 0 \/ t.undo = <<>> THEN t ELSE Undos(UndoStep(t), n - 1)
RECURSIVE Redos(_, _)
Redos(t, n) ==
  IF n = 0 \/ t.redo = <<>> THEN t ELSE Redos(RedoStep(t), n - 1)

LastN(s, n) == IF Len(s) <= n THEN s ELSE SubSeq(s, Len(s) - n + 1, Len(s))

\* C5: the undo stack holds the MAX_UNDO_STACK_SIZE most recent checkpoints
\* (after 20+k pushes exactly the 20 most recent, in order), and the redo
\* stack is empty after every checkpoint.
C5_StackBound ==
  /\ [](audit.pure => undoStack = LastN(audit.log, MAX_UNDO_STACK_SIZE))
  /\ [][audit'.pushes > audit.pushes => redoStack' = <<>>]_vars

\* more checkpoints were pushed than the stack keeps
C5_Overflowed ==
  /\ audit.pure
  /\ Len(audit.log) = MAX_UNDO_STACK_SIZE + MaxExtraPushes
  /\ Len(undoStack) = MAX_UNDO_STACK_SIZE
  /\ undoStack[1] # audit.log[1]

\* C6: the video URL and the image slots are never both set.
C6_VideoExcludesImage ==
  cs.currentVideoUrl # NULL => cs.bgUrl1 = NULL /\ cs.bgUrl2 = NULL

\* the step in which operation o fails
Fails(o) ==
  \/ ServiceRejected(o, TRUE)
  \/ ServiceRejected(o, FALSE)
  \/ ServiceReturnedNothing(o)

\* C7: when an operation fails, the creation state is the state of the
\* checkpoint the operation took when it started.
C7_FailureRestores ==
  [][\A o \in InFlight(GenerationOps \ {"surpriseMe"}) :
       Fails(o) => captureState(cs') = captureState(o.env)]_vars

\* C8: each busy flag is set exactly while an operation that owns it is in
\* flight, so that the flags are clear on every outcome and isBusy is false
\* whenever no operation is in flight.
C8_BusyWhileInFlight ==
  /\ \A f \in FlagNames : flags[f] <=> (\E o \in inflight : FlagOf(o.op) = f)
  /\ inflight = {} => ~isBusy

\* an operation has failed and has left no flag behind
C8_FailedAndIdle ==
  /\ error = "service error"
  /\ inflight = {}
  /\ ~isBusy
  /\ undoStack # <<>>

\* the operations that begin in a step
Begun == inflight' \ inflight

\* the operations that take no checkpoint: the three analysis operations
\* and surprise-me
Uncheckpointed == {"analyzeScene", "suggestNegatives", "applyStyle",
                   "surpriseMe"}

C10_UndoLeavesLedger ==
  [][(\/ handleUndo
      \/ handleRedo
      \/ handleVideoLoaded /\ videoEl.cause \in {"undo", "redo"})
       => history' = history]_vars

\* C11: the error banner and the conversational banner are never both set,
\* and an operation that begins leaves both banners cleared.
C11_OneBanner ==
  /\ [](error = NULL \/ conversationalResponse = NULL)
  /\ [][Begun # {} => error' = NULL /\ conversationalResponse' = NULL]_vars

\* C12: a session found in storage when the component mounts is offered for
\* restoring (it is the pending candidate and is still stored) with the state
\* untouched, and the state stays untouched while the candidate is pending.
C12_SnapshotOffered ==
  /\ audit.found # NoItem =>
       /\ autoSaveState = JSONParse(audit.found)
       /\ storage = audit.found
       /\ cs = InitialState
  /\ [][autoSaveState # NoSession /\ autoSaveState' # NoSession
          => cs' = cs]_vars

\* C13 as stated: with the prompt, both image slots and the video URL empty,
\* nothing is stored under the autosave key.
C13_EmptyMeansAbsent ==
  cs.prompt = "" /\ ~hasMedia => storage = NoItem

\* C13: whenever the prompt, the first image slot, the edit-source image and
\* the video URL are all empty, nothing is stored under the autosave key: the
\* step that empties them removes the item and no timer tick writes one.
C13_NoContentNoKey ==
  (/\ cs.prompt = "" /\ cs.bgUrl1 = NULL /\ cs.currentImage = NULL
   /\ cs.currentVideoUrl = NULL) => storage = NoItem
\* the timer has saved the session, and the content has been emptied since
C13_RemovedAtOnce ==
  /\ audit.saved /\ cs.prompt = "" /\ cs.bgUrl1 = NULL
  /\ cs.currentImage = NULL /\ cs.currentVideoUrl = NULL
  /\ storage = NoItem

\* the fields of a VoxState that saveCurrentSession keeps
KeptKeys ==
  Range(VoxStateKeys) \ {"uploadedImages", "currentImage", "bgUrl1", "bgUrl2",
                         "currentVideoUrl"}

C15_StagingBound == Len(cs.uploadedImages) <= MAX_UPLOADS

\* the combine calls that begin in a step
CombineCalls == {o \in Begun : o.op = "combine"}

AfterOneDelete ==
  /\ Len(history) = MAX_HISTORY_ITEMS - 1
  /\ Range(history) \subseteq Range(InitHistory(MAX_HISTORY_ITEMS))

\* C17: once exactly one record of a full ledger has been deleted, a
\* generation that is invoked begins (it is not refused), and a generation
\* whose call succeeds appends its record, which fills the ledger again.
C17_CapacityRecovered ==
  [][AfterOneDelete =>
       /\ (handleGenerateOrEdit /\ cs.prompt # "") =>
            /\ \E o \in Begun : o.op = "generateOrEdit"
            /\ ~isHistoryFullWarningVisible'
       /\ (\E o \in inflight, img \in ServiceImages, seedUsed \in ServiceSeeds :
             ImageResolved(o, img, seedUsed)) =>
            /\ Len(history') = MAX_HISTORY_ITEMS
            /\ Front(history') = history
            /\ Last(history').id = nextId
            /\ Last(history').src \in ServiceImages]_vars
\* one of the first records is gone, a generated one has taken the last place
C17_FullAgain ==
  /\ scenario = "ledger"
  /\ Len(history) = MAX_HISTORY_ITEMS
  /\ Last(history).id > MAX_HISTORY_ITEMS
  /\ Front(history) = SubSeq(InitHistory(MAX_HISTORY_ITEMS), 2, MAX_HISTORY_ITEMS)

\* C18: the primary action runs combine exactly when two or more staged
\* images are selected at the time it is invoked, and otherwise
\* generate-or-edit, whose call is the edit call exactly when an edit-source
\* image is set at that time.
C18_ModeByData ==
  [][/\ handleCombineImages => Cardinality(selectedIndices) >= 2
     /\ handleGenerateOrEdit => Cardinality(selectedIndices) < 2
     /\ (handleCombineImages \/ handleGenerateOrEdit) =>
          \A o \in Begun :
            ServiceCall(o) =
              IF Cardinality(selectedIndices) >= 2 THEN "combineImages"
              ELSE IF cs.currentImage # NULL THEN "editImageFromPrompt"
              ELSE "generateImagesFromPrompt"]_vars
\* the edit call is under way, begun with an edit-source image set and one
\* staged image selected
C18_EditCalled ==
  \E o \in inflight :
    /\ o.op = "generateOrEdit" /\ ServiceCall(o) = "editImageFromPrompt"
    /\ Cardinality(o.sel) = 1 /\ Len(o.env.uploadedImages) = 2

\* C19: when no operation and no image load is pending and an image slot is
\* filled, the slot the active-slot flag designates is filled.
C19_ActiveSlotFilled ==
  (/\ inflight = {} /\ loads = {}
   /\ (cs.bgUrl1 # NULL \/ cs.bgUrl2 # NULL)) => ActiveSlotImage(cs) # NULL

\* an invocation of an operation whose own precondition fails
FailedAttempt ==
  \/ handleGenerateOrEdit /\ cs.prompt = ""
  \/ handleCombineImages
       /\ (Cardinality(selectedIndices) < 2 \/ cs.prompt = "")
  \/ (\E resolution \in Resolutions : handleUpscale(resolution))
       /\ (SourceImage(cs) = NULL \/ cs.activeHistoryItemId = 0)
  \/ handleGenerateVariations /\ SourceImage(cs) = NULL
  \/ (\E newRatio \in Ratios : handleReframe(newRatio)) /\ SourceImage(cs) = NULL
  \/ (\E direction \in Directions : handleChangeViewpoint(direction))
       /\ SourceImage(cs) = NULL
  \/ handleApplyInpainting /\ SourceImage(cs) = NULL

\* C20: an operation invoked while its own precondition fails changes
\* nothing: no state change, no checkpoint, no service call, no banner and
\* no warning.
C20_SilentAbort ==
  [][FailedAttempt =>
       /\ cs' = cs
       /\ undoStack' = undoStack /\ redoStack' = redoStack
       /\ inflight' = inflight
       /\ error' = error /\ conversationalResponse' = conversationalResponse
       /\ isHistoryFullWarningVisible' = isHistoryFullWarningVisible]_vars

\* C21: a generation-style operation that fails commits nothing: neither the
\* step in which it begins nor the step in which its service call is rejected
\* or returns no media changes the ledger, the active history record id or
\* the token meter.
C21_FailureCommitsNothing ==
  [][\A o \in InFlight(GenerationOps) \cup {b \in Begun : b.op \in GenerationOps} :
       (Fails(o) \/ o \in Begun) =>
         /\ history' = history
         /\ cs'.activeHistoryItemId = cs.activeHistoryItemId
         /\ tokenUsage' = tokenUsage]_vars

\* an operation has failed after an earlier one had stored a record and had
\* been charged for it
C21_FailedAfterCommit ==
  /\ error # NULL /\ inflight = {} /\ loads = {}
  /\ tokenUsage.session > 0
  /\ cs.activeHistoryItemId > MAX_HISTORY_ITEMS
  /\ Len(history) = MAX_HISTORY_ITEMS - 1
  /\ Len(undoStack) = 2

\* C22: cancelling a batch keeps the results completed so far in the result
\* list; the result of the call that is in flight when cancel is requested is
\* discarded (the list and the token count stay as they are) and the batch
\* issues no further call.
C22_CancelDiscardsInFlight ==
  [][/\ handleCancel => cos'.generatedImages = cos.generatedImages
     /\ \A l \in cos.loops :
          (cos.isCancelledRef /\ EditResolved(l)) =>
            /\ cos'.generatedImages = cos.generatedImages
            /\ cos'.tokenUsage = cos.tokenUsage
            /\ cos'.loops = cos.loops \ {l}]_vars

\* C29: a cancelled batch stays cancelled when a new batch is started before
\* its in-flight call resolves: the old loop adds no result and issues no
\* further call, and the generating flag is set for as long as the new batch
\* is running.
C29_CancelledStaysCancelled ==
  /\ [][\A l \in cos.loops :
          (l.batch < cos.batches /\ (EditResolved(l) \/ EditRejected(l))) =>
            /\ cos'.generatedImages = cos.generatedImages
            /\ \A m \in cos'.loops : m.batch # l.batch]_vars
  /\ []((~cos.isCancelledRef /\ \E l \in cos.loops : l.batch = cos.batches)
          => cos.isGenerating)

\* C23: a failure of the service that carries the refusal marker reaches the
\* user of the nine operations as the conversational banner and not as the
\* error banner, whatever else its text contains; a failure without the
\* marker reaches the user as the error banner.
C23_RefusalIsConversational ==
  [][\A o \in InFlight(GenerationOps), message \in ServiceMessages :
       ServiceFailed(o, message) =>
         IF StartsWith(message, RefusalMarker)
         THEN conversationalResponse' # NULL /\ error' = error
         ELSE error' # NULL /\ conversationalResponse' = conversationalResponse]_vars

\* C24: when the service has returned an image, the record of the generation
\* is appended to the ledger (the ledger grows by one) whether or not the
\* image then loads; when it fails to load, the error banner is set,
\* imageDimensions is null and the ledger stays as it is.
C24_DecodeFailureKeepsRecord ==
  [][/\ \A l \in loads :
          ImgOnerror(l) =>
            /\ error' # NULL
            /\ cs'.imageDimensions = NULL
            /\ history' = history
     /\ \A o \in InFlight(ImageOps) :
          (\E img \in ServiceImages, seedUsed \in ServiceSeeds :
             ImageResolved(o, img, seedUsed)) =>
            /\ Len(history') = Len(history) + 1
            /\ Last(history').src \in ServiceImages]_vars

\* C25: the undo stack never holds more than MAX_UNDO_STACK_SIZE snapshots,
\* redo (which pushes without trimming) included, and the undo and redo
\* stacks together never hold more than MAX_UNDO_STACK_SIZE.
C25_StacksBounded ==
  /\ Len(undoStack) <= MAX_UNDO_STACK_SIZE
  /\ Len(undoStack) + Len(redoStack) <= MAX_UNDO_STACK_SIZE

\* a step undone at a full undo stack has been redone
C25_RedoneAtFullStack ==
  /\ Len(undoStack) = MAX_UNDO_STACK_SIZE /\ redoStack = <<>>
  /\ audit.undos >= 1
  /\ audit.pushes = MAX_UNDO_STACK_SIZE

\* C26: a generated video is recorded once, when it first loads (the ledger
\* grows by the record of that video), and a video that loads because a
\* recorded video is displayed again (a video record selected, undo or redo
\* to a state with a video) adds no record.
C26_OneRecordPerVideo ==
  [][handleVideoLoaded =>
       IF videoEl.cause = "generated"
       THEN /\ Len(history') = Len(history) + 1
            /\ Last(history').videoSrc = videoEl.url
       ELSE history' = history]_vars

\* C30: the record stored for a generated video has generationMode
\* image-to-video when generateVideo was started with an edit-source image,
\* and text-to-video when it was started without one.
C30_VideoRecordMode ==
  [][(handleVideoLoaded /\ videoEl.cause = "generated"
        /\ Len(history') = Len(history) + 1) =>
       Last(history').generationMode =
         IF videoEl.fromImage THEN "image-to-video" ELSE "text-to-video"]_vars

\* C27: an image-load callback that was pending when undo, redo, start-fresh
\* or a history selection completed never writes afterwards: the image slots,
\* the active-slot flag and imageDimensions of the restored or cleared state
\* are left as they are when such a callback runs.
C27_NoStaleSlotWrite ==
  [][\A l \in loads :
       (ImgOnload(l) /\ l.stale) =>
         /\ cs'.bgUrl1 = cs.bgUrl1 /\ cs'.bgUrl2 = cs.bgUrl2
         /\ cs'.isBg1Active = cs.isBg1Active
         /\ cs'.imageDimensions = cs.imageDimensions]_vars

\* C28: every selected staging index refers to a staged image (it is less
\* than the number of staged uploads), and the selection a combine operation
\* hands to the service refers to images staged when it started.
C28_SelectionWithinStaged ==
  /\ \A index \in selectedIndices : index < Len(cs.uploadedImages)
  /\ \A o \in InFlight({"combine"}) :
       \A index \in o.sel : index < Len(o.env.uploadedImages)


====
